---- MODULE Spec2Model ----
(***************************************************************************)
(* Model of main.py: the HTTP function fill_pdf_form (request validation,  *)
(* field mapping, form filling, signature compositing, scratch files) and  *)
(* add_signature_to_pdf (page merge).                                      *)
(*                                                                         *)
(* Text values are sequences of one-character strings, so that len(),      *)
(* slicing, startswith(), lower() and str() are computed, not assumed.     *)
(* Dictionary keys and template field names are only compared for          *)
(* equality and are kept as atoms.                                         *)
(***************************************************************************)
EXTENDS Integers, Sequences, FiniteSets, TLC

(***************************************************************************)
(* Bounds of the model.                                                    *)
(***************************************************************************)
NumReqs == 2        \* concurrent requests
MaxClock == 2       \* clock readings 0..MaxClock
TicksPerDay == 2    \* clock ticks per calendar day
MaxStrLen == 42     \* longest text / number value drawn as input
MaxPages == 6       \* longest document given to add_signature_to_pdf

Reqs == 1..NumReqs

(***************************************************************************)
(* Python values of the field map: str, int/float, bool, None.             *)
(*   t : type tag, s : characters (str) or decimal digits (number),        *)
(*   b : the boolean (bool)                                                *)
(***************************************************************************)
StrVal(chars) == [t |-> "str", s |-> chars, b |-> FALSE]
NumVal(digits) == [t |-> "num", s |-> digits, b |-> FALSE]
BoolVal(bb) == [t |-> "bool", s |-> <<>>, b |-> bb]
NoneVal == [t |-> "null", s |-> <<>>, b |-> FALSE]

\* str(value)
PyStr(value) ==
    CASE value.t = "str" -> value.s
      [] value.t = "num" -> value.s
      [] value.t = "bool" -> IF value.b THEN <<"T","r","u","e">>
                                         ELSE <<"F","a","l","s","e">>
      [] OTHER -> <<"N","o","n","e">>

\* bool(value)
Truthy(value) ==
    CASE value.t = "str" -> value.s # <<>>
      [] value.t = "num" -> value.s # <<"0">>
      [] value.t = "bool" -> value.b
      [] OTHER -> FALSE

UpperChars == <<"A","B","C","D","E","F","G","H","I","J","K","L","M",
                "N","O","P","Q","R","S","T","U","V","W","X","Y","Z">>
LowerChars == <<"a","b","c","d","e","f","g","h","i","j","k","l","m",
                "n","o","p","q","r","s","t","u","v","w","x","y","z">>

LowerChar(c) ==
    IF \E i \in 1..Len(UpperChars) : UpperChars[i] = c
    THEN LowerChars[CHOOSE i \in 1..Len(UpperChars) : UpperChars[i] = c]
    ELSE c

\* str.lower()
PyLower(chars) == [i \in 1..Len(chars) |-> LowerChar(chars[i])]

\* chars[:n]
Prefix(chars, n) == SubSeq(chars, 1, IF n < Len(chars) THEN n ELSE Len(chars))

\* str.startswith(prefix)
StartsWith(chars, prefix) ==
    /\ Len(chars) >= Len(prefix)
    /\ SubSeq(chars, 1, Len(prefix)) = prefix

\* needle in chars  (substring test of the `in` operator on a str)
Contains(chars, needle) ==
    \E i \in 0..Len(chars) :
        /\ i + Len(needle) <= Len(chars)
        /\ SubSeq(chars, i + 1, i + Len(needle)) = needle

(***************************************************************************)
(* Configuration (main.py 28-123)                                          *)
(***************************************************************************)
CHECKBOX_FIELDS ==
    {"bankAccountOpen90Days", "isBusinessForSale", "filedBankruptcy",
     "hasTaxLiens", "isUSCitizenPermanentResident", "ownOrRent",
     "agreeToTerms"}

\* Every target is a sequence of template field names: one name for a text
\* field, the <<yes, no>> pair for a checkbox field.
FIELD_MAPPING ==
    ( "legalBusinessName" :> <<"Text_1">> ) @@
    ( "dbaName" :> <<"Text_2">> ) @@
    ( "physicalAddress" :> <<"Text_3">> ) @@
    ( "city" :> <<"Text_4">> ) @@
    ( "state" :> <<"Text_5">> ) @@
    ( "zipCode" :> <<"Text_6">> ) @@
    ( "businessPhone" :> <<"Text_7">> ) @@
    ( "businessFax" :> <<"Text_8">> ) @@
    ( "businessEmail" :> <<"Text_9">> ) @@
    ( "estimatedMonthlySales" :> <<"Text_10">> ) @@
    ( "estimatedMonthlyCCSales" :> <<"Text_11">> ) @@
    ( "businessStartDate" :> <<"Text_12">> ) @@
    ( "bankingInstitution" :> <<"Text_13">> ) @@
    ( "timeRemainingOnLeaseMortgage" :> <<"Text_14">> ) @@
    ( "businessType" :> <<"Text_15">> ) @@
    ( "landlordAgentName" :> <<"Text_16">> ) @@
    ( "landlordAgentPhone" :> <<"Text_17">> ) @@
    ( "numberOfLocations" :> <<"Text_18">> ) @@
    ( "federalTaxId" :> <<"Text_19">> ) @@
    ( "amountRequested" :> <<"Text_20">> ) @@
    ( "intendedUseOfMoney" :> <<"Text_21">> ) @@
    ( "typeOfEntity" :> <<"Text_22">> ) @@
    ( "authorizedSignerName" :> <<"Text_23">> ) @@
    ( "authorizedSignerTitle" :> <<"Text_40">> ) @@
    ( "ownershipPercentage" :> <<"Text_25">> ) @@
    ( "score" :> <<"Text_26">> ) @@
    ( "principalOwnerName" :> <<"Text_27">> ) @@
    ( "ssn" :> <<"Text_28">> ) @@
    ( "dob" :> <<"Text_29">> ) @@
    ( "homeAddress" :> <<"Text_30">> ) @@
    ( "homeCity" :> <<"Text_31">> ) @@
    ( "homeState" :> <<"Text_32">> ) @@
    ( "homeZipCode" :> <<"Text_33">> ) @@
    ( "homePhone" :> <<"Text_34">> ) @@
    ( "mobilePhone" :> <<"Text_35">> ) @@
    ( "timeAtHomeAddress" :> <<"Text_36">> ) @@
    ( "timeAtPreviousHomeAddress" :> <<"Text_37">> ) @@
    ( "estimatedAnnualIncome" :> <<"Text_38">> ) @@
    ( "signatureDate" :> <<"Text_39">> ) @@
    ( "bankAccountOpen90Days" :> <<"Checkbox_1", "Checkbox_2">> ) @@
    ( "isBusinessForSale" :> <<"Checkbox_3", "Checkbox_4">> ) @@
    ( "filedBankruptcy" :> <<"Checkbox_5", "Checkbox_6">> ) @@
    ( "hasTaxLiens" :> <<"Checkbox_7", "Checkbox_8">> ) @@
    ( "isUSCitizenPermanentResident" :> <<"Checkbox_9", "Checkbox_10">> ) @@
    ( "ownOrRent" :> <<"Checkbox_11", "Checkbox_12">> ) @@
    ( "agreeToTerms" :> <<"Checkbox_13", "Checkbox_14">> )

\* SIGNATURE_POSITION["page"] as configured
SIGNATURE_PAGE == 0

SIGNATURE_PREFIX ==
    <<"d","a","t","a",":","i","m","a","g","e","/","p","n","g",";",
      "b","a","s","e","6","4",",">>

\* keys the text pass skips besides the checkbox fields (line 260)
SIGNATURE_KEYS == {"signatureImageBase64", "signatureDataHash"}

YesVal == StrVal(<<"Y","e","s">>)
OffVal == StrVal(<<"O","f","f">>)

(***************************************************************************)
(* Field Mapper (main.py 254-302)                                          *)
(***************************************************************************)

\* Truncate with the general cap applied to every field
Truncate_GeneralCapOnly(field_name, value) ==
    IF value.t = "str" /\ Len(value.s) > 40
    THEN StrVal(Prefix(value.s, 40))
    ELSE value

\* lines 267-278: the value stored for a mapped text field
Truncate(field_name, value) ==
    IF field_name = "businessEmail" /\ Len(PyStr(value)) > 30
    THEN StrVal(Prefix(PyStr(value), 30))
    ELSE IF field_name = "businessType" /\ Len(PyStr(value)) > 35
    THEN StrVal(Prefix(PyStr(value), 35))
    ELSE IF value.t = "str" /\ Len(value.s) > 40
    THEN StrVal(Prefix(value.s, 40))
    ELSE value

\* lines 260-264: the input keys the text pass writes
TextKeys(form) ==
    {k \in DOMAIN form :
        /\ k \notin SIGNATURE_KEYS
        /\ k \notin CHECKBOX_FIELDS
        /\ k \in DOMAIN FIELD_MAPPING}

\* lines 265, 280: the template field a text key is written to
PdfFieldName(field_name) == FIELD_MAPPING[field_name][1]

\* TextPass writing an unmapped key under its own name
TextPass_KeepUnmapped(form) ==
    LET keys == {k \in DOMAIN form :
                    k \notin SIGNATURE_KEYS /\ k \notin CHECKBOX_FIELDS}
        target(k) == IF k \in DOMAIN FIELD_MAPPING THEN PdfFieldName(k) ELSE k
        src(p) == CHOOSE k \in keys : target(k) = p
    IN  [p \in {target(k) : k \in keys} |-> Truncate(src(p), form[src(p)])]

\* lines 255-280: pdf_form_data after the text loop
TextPass(form) ==
    LET keys == TextKeys(form)
        src(p) == CHOOSE k \in keys : PdfFieldName(k) = p
    IN  [p \in {PdfFieldName(k) : k \in keys} |->
            Truncate(src(p), form[src(p)])]

\* IsYes comparing without lower-casing
IsYes_CaseSensitive(value) ==
    IF value.t = "bool"
    THEN value.b
    ELSE PyStr(value) \in
            { <<"y","e","s">>, <<"t","r","u","e">>, <<"1">>,
              <<"o","n">>, <<"o","w","n">> }

\* lines 289-293
IsYes(value) ==
    IF value.t = "bool"
    THEN value.b
    ELSE PyLower(PyStr(value)) \in
            { <<"y","e","s">>, <<"t","r","u","e">>, <<"1">>,
              <<"o","n">>, <<"o","w","n">> }

\* lines 283-287: the checkbox fields that are processed
CheckboxKeys(form) ==
    {c \in CHECKBOX_FIELDS : c \in DOMAIN form /\ c \in DOMAIN FIELD_MAPPING}

\* lines 296-298: the two entries written for one checkbox field
CheckboxEntries(checkbox_field, value) ==
    LET field_pair == FIELD_MAPPING[checkbox_field]
        is_yes == IsYes(value)
    IN  ( field_pair[1] :> (IF is_yes THEN YesVal ELSE OffVal) ) @@
        ( field_pair[2] :> (IF ~is_yes THEN YesVal ELSE OffVal) )

\* lines 283-298: pdf_form_data after the checkbox loop
CheckboxPass(data, form) ==
    LET keys == CheckboxKeys(form)
        pairOf(p) == CHOOSE c \in keys :
                        p \in {FIELD_MAPPING[c][1], FIELD_MAPPING[c][2]}
        written == UNION {{FIELD_MAPPING[c][1], FIELD_MAPPING[c][2]} : c \in keys}
    IN  [p \in DOMAIN data \cup written |->
            IF p \in written
            THEN CheckboxEntries(pairOf(p), form[pairOf(p)])[p]
            ELSE data[p]]

\* DatePass that keeps an entry the text pass has written
DatePass_KeepExisting(data, date) ==
    IF PdfFieldName("signatureDate") \in DOMAIN data
    THEN data
    ELSE [p \in DOMAIN data \cup {PdfFieldName("signatureDate")} |->
            IF p = PdfFieldName("signatureDate") THEN date ELSE data[p]]

\* lines 301-302: pdf_form_data after the signature date is set
DatePass(data, date) ==
    IF "signatureDate" \in DOMAIN FIELD_MAPPING
    THEN [p \in DOMAIN data \cup {PdfFieldName("signatureDate")} |->
            IF p = PdfFieldName("signatureDate") THEN date ELSE data[p]]
    ELSE data

(***************************************************************************)
(* add_signature_to_pdf, page assembly (main.py 171-185).                  *)
(* A page is [src |-> position in the input document,                      *)
(*            merged |-> the overlay was merged onto it].                  *)
(***************************************************************************)
MergePages(pages, page_idx) ==
    IF 0 <= page_idx /\ page_idx < Len(pages)
    THEN << [pages[page_idx + 1] EXCEPT !.merged = TRUE] >> \o
         [i \in 1..(Len(pages) - 1) |->
            pages[IF i <= page_idx THEN i ELSE i + 1]]
    ELSE pages

\* a document of n pages as PdfReader returns it
Document(n) == [i \in 1..n |-> [src |-> i, merged |-> FALSE]]

\* the pages of the template asset (TEMPLATE_PDF_PATH) as shipped
TemplatePages == Document(2)

(***************************************************************************)
(* Request bodies.                                                         *)
(*   top level   [t, items]    t = "list" carries the items                *)
(*   item        [t, s, l, d]  str: s; list of strings: l; dict: d         *)
(*   dict value  [t, m]        t = "dict" carries the field map m          *)
(***************************************************************************)
BODY == <<"b","o","d","y">>

\* `'body' in data` (line 214); "TypeError" when data supports no `in`
HasBody(data) ==
    CASE data.t = "dict" -> "body" \in DOMAIN data.d
      [] data.t = "str" -> Contains(data.s, BODY)
      [] data.t = "list" -> \E i \in 1..Len(data.l) : data.l[i] = BODY
      [] OTHER -> FALSE

SupportsIn(data) == data.t \in {"dict", "str", "list"}

\* dict.get(key, default)
Get(m, key, default) == IF key \in DOMAIN m THEN m[key] ELSE default

\* strftime('%Y-%m-%d') of a clock reading
DigitChars == <<"0","1","2","3","4","5","6","7","8","9">>
StrfDate(t) ==
    <<"2","0","2","6","-","1","1","-","0">> \o
    << DigitChars[((1 + (t \div TicksPerDay)) % 10) + 1] >>

\* lines 202-225: the status the validation returns, 0 when it passes
Validate(method, json) ==
    IF method # "POST" THEN 405
    ELSE IF json.t # "list" \/ json.items = <<>> THEN 400
    ELSE LET data == json.items[1] IN
         IF ~SupportsIn(data) THEN 500              \* TypeError, line 214
         ELSE IF ~HasBody(data) THEN 400
         ELSE IF data.t # "dict" THEN 500           \* no .get, line 218
         ELSE IF data.d["body"].t # "dict" THEN 500 \* no .get, line 219
         ELSE LET signature_base64 ==
                    Get(data.d["body"].m, "signatureImageBase64", StrVal(<<>>))
              IN  IF signature_base64.t # "str" THEN 500  \* no .startswith
                  ELSE IF ~StartsWith(signature_base64.s, SIGNATURE_PREFIX)
                  THEN 400
                  ELSE 0

\* signature_base64.split(',')[1]   (line 247)
FirstComma(chars) ==
    IF \E i \in 1..Len(chars) : chars[i] = ","
    THEN CHOOSE i \in 1..Len(chars) :
            chars[i] = "," /\ \A j \in 1..(i - 1) : chars[j] # ","
    ELSE Len(chars) + 1
SplitComma1(chars) ==
    LET rest == SubSeq(chars, FirstComma(chars) + 1, Len(chars))
    IN  SubSeq(rest, 1, FirstComma(rest) - 1)

\* base64.b64decode succeeds (line 248): characters outside the alphabet
\* are discarded and the rest must come in groups of four
B64Chars ==
    {UpperChars[i] : i \in 1..26} \cup {LowerChars[i] : i \in 1..26} \cup
    {DigitChars[i] : i \in 1..10} \cup {"+", "/", "="}
B64Valid(chars) ==
    Len(SelectSeq(chars, LAMBDA c : c \in B64Chars)) % 4 = 0

\* Image.open accepts the decoded bytes (line 138): they begin with the
\* PNG signature, whose base64 form is iVBORw0KGgo
PNG_MAGIC == <<"i","V","B","O","R","w","0","K","G","g","o">>
IsPng(chars) == StartsWith(chars, PNG_MAGIC)

(***************************************************************************)
(* Scratch storage.  A path is [name, stamp]; fs maps the existing paths   *)
(* to their content.                                                       *)
(***************************************************************************)
NoPath == [name |-> "", stamp |-> -1]
\* line 228
SignaturePath == [name |-> "signature.png", stamp |-> -1]
\* line 229
TempFilledPath(stamp) == [name |-> "filled_form_temp", stamp |-> stamp]
\* line 230
OutputPath(stamp) == [name |-> "filled_form", stamp |-> stamp]

SignatureFile(r, image) ==
    [writer |-> r, image |-> image, pages |-> <<>>, doc_of |-> 0, sig_of |-> r]
DocumentFile(r, pages, doc_of, sig_of) ==
    [writer |-> r, image |-> FALSE, pages |-> pages,
     doc_of |-> doc_of, sig_of |-> sig_of]
NoBytes == [writer |-> 0, image |-> FALSE, pages |-> <<>>, doc_of |-> 0, sig_of |-> 0]

\* open(path, "wb") and write
WriteFile(files, path, content) ==
    [p \in DOMAIN files \cup {path} |-> IF p = path THEN content ELSE files[p]]

\* the cleanup loops (lines 350-352, 360-362, 368-370)
RemoveFiles(files, paths) == [p \in DOMAIN files \ paths |-> files[p]]

\* lines 316-322: the annotation text
AnnotationText(date, hash) ==
    (IF Truthy(date) THEN <<"S","i","g","n","e","d",":"," ">> \o PyStr(date)
                     ELSE <<>>) \o
    (IF Truthy(hash)
     THEN (IF Truthy(date) THEN <<" ","|"," ">> ELSE <<>>) \o
          <<"H","a","s","h",":"," ">> \o PyStr(hash)
     ELSE <<>>)

(***************************************************************************)
(* Inputs                                                                  *)
(***************************************************************************)
\* a text of n characters whose i-th character is the digit i mod 10
Digits(n) == [i \in 1..n |-> DigitChars[(i % 10) + 1]]

PNG_PAYLOAD == PNG_MAGIC \o <<"A">>

SigOk == StrVal(SIGNATURE_PREFIX \o PNG_PAYLOAD)
SigNotImage == StrVal(SIGNATURE_PREFIX \o <<"a","G","k","=">>)
SigBadB64 == StrVal(SIGNATURE_PREFIX \o <<"a">>)
SigNoPrefix == StrVal(PNG_PAYLOAD)

SignatureValues ==
    {SigOk, SigNotImage, SigBadB64, SigNoPrefix,
     NumVal(<<"1","2","3">>), BoolVal(TRUE), NoneVal}

BaseForm ==
    ( "legalBusinessName" :> StrVal(<<"A","c","m","e"," ","I","n","c">>) ) @@
    ( "bankAccountOpen90Days" :> StrVal(<<"y","e","s">>) ) @@
    ( "signatureDataHash" :> StrVal(<<"a","b","c","1","2","3">>) )

\* neither a signature date nor a hash that is truthy
UnsignedForm ==
    ( "signatureImageBase64" :> SigOk ) @@
    ( "signatureDate" :> StrVal(<<>>) ) @@
    ( "signatureDataHash" :> StrVal(<<>>) )

DatedForm ==
    ( "signatureImageBase64" :> SigOk ) @@
    ( "signatureDate" :> StrVal(<<"2","0","2","6","-","0","1","-","0","1">>) ) @@
    ( "nickname" :> StrVal(<<"x">>) )

\* field maps of the requests of the full pipeline
PipelineForms ==
    {BaseForm, DatedForm, UnsignedForm} \cup
    {( "signatureImageBase64" :> sig ) @@ BaseForm : sig \in SignatureValues}

BodyDict(form) == [t |-> "dict", m |-> form]
BodyNull == [t |-> "null", m |-> <<>>]

DictItem(d) == [t |-> "dict", s |-> <<>>, l |-> <<>>, d |-> d]
StrItem(chars) == [t |-> "str", s |-> chars, l |-> <<>>, d |-> <<>>]
ListItem(strs) == [t |-> "list", s |-> <<>>, l |-> strs, d |-> <<>>]
ScalarItem(tag) == [t |-> tag, s |-> <<>>, l |-> <<>>, d |-> <<>>]

ListJson(items) == [t |-> "list", items |-> items]
OtherJson(tag) == [t |-> tag, items |-> <<>>]

WrappedForm(form) == ListJson(<< DictItem("body" :> BodyDict(form)) >>)

MalformedItems ==
    { DictItem(<<>>),
      DictItem("data" :> BodyDict(BaseForm)),
      DictItem("body" :> BodyNull),
      StrItem(BODY),
      StrItem(<<"a","n","y","b","o","d","y","?">>),
      StrItem(<<"x">>),
      ListItem(<< BODY >>),
      ListItem(<<>>),
      ScalarItem("num"), ScalarItem("bool"), ScalarItem("null") }

PipelineJsons ==
    {WrappedForm(form) : form \in PipelineForms} \cup
    {ListJson(<<item>>) : item \in MalformedItems} \cup
    {ListJson(<<>>), OtherJson("dict"), OtherJson("null"),
     OtherJson("str"), OtherJson("num")}

Requests ==
    {[method |-> "POST", json |-> j] : j \in PipelineJsons} \cup
    {[method |-> "GET", json |-> WrappedForm(( "signatureImageBase64" :> SigOk ) @@ BaseForm)]}

NoRequest == [method |-> "", json |-> OtherJson("null"), at |-> 0]

(***************************************************************************)
(* Inputs of the field mapper: the signature, at most one text entry and   *)
(* at most one checkbox entry, with values of every type and of lengths    *)
(* on both sides of the three caps.                                        *)
(***************************************************************************)
MapperTextNames ==
    {"legalBusinessName", "businessEmail", "businessType", "signatureDate",
     "nickname"}
MapperLengths == {0, 1} \cup 29..MaxStrLen
MapperTextValues ==
    {StrVal(Digits(n)) : n \in MapperLengths} \cup
    {NumVal(Digits(n)) : n \in MapperLengths \ {0}} \cup
    {BoolVal(TRUE), BoolVal(FALSE), NoneVal}
MapperCheckboxNames == {"ownOrRent", "agreeToTerms"}
MapperCheckboxValues ==
    {BoolVal(TRUE), BoolVal(FALSE), NoneVal,
     NumVal(<<"1">>), NumVal(<<"0">>), NumVal(<<"1",".","0">>)} \cup
    {StrVal(w) : w \in
        { <<"y","e","s">>, <<"Y","e","s">>, <<"Y","E","S">>,
          <<"t","r","u","e">>, <<"T","r","u","e">>, <<"1">>,
          <<"o","n">>, <<"O","N">>, <<"o","w","n">>, <<"O","w","n">>,
          <<"n","o">>, <<"o","f","f">>, <<"r","e","n","t">>,
          <<"f","a","l","s","e">>, <<"0">>, <<>>, <<"y","e","s"," ">>,
          <<"y">> }}
NoEntry == [k \in {} |-> NoneVal]
MapperForms ==
    {( "signatureImageBase64" :> SigOk ) @@ te @@ ce :
        te \in {NoEntry} \cup
                {k :> v : k \in MapperTextNames, v \in MapperTextValues},
        ce \in {NoEntry} \cup
                {c :> v : c \in MapperCheckboxNames, v \in MapperCheckboxValues}}
MapperRequests ==
    {[method |-> "POST", json |-> WrappedForm(form)] : form \in MapperForms}

\* the one request of the page-merge runs
MergeRequests ==
    {[method |-> "POST", json |-> WrappedForm(( "signatureImageBase64" :> SigOk ) @@ BaseForm)]}

(***************************************************************************)
(* State                                                                   *)
(***************************************************************************)
VARIABLES
    clock,                 \* datetime.now()
    fs,                    \* scratch storage /tmp
    sig_page,              \* SIGNATURE_POSITION["page"]
    template_pages,        \* pages of the template asset
    pc,                    \* position of each request in fill_pdf_form
    req,                   \* the request each invocation received
    status,                \* HTTP status returned, 0 while running
    pdf_bytes,             \* body of a 200 response
    form_fields, signature_hash, signature_date,
    temp_signature_path, temp_filled_pdf_path, output_pdf_path,
    pdf_form_data

vars == <<clock, fs, sig_page, template_pages, pc, req, status, pdf_bytes,
          form_fields, signature_hash, signature_date,
          temp_signature_path, temp_filled_pdf_path, output_pdf_path,
          pdf_form_data>>

config == <<sig_page, template_pages>>
locals == <<form_fields, signature_hash, signature_date>>
paths == <<temp_signature_path, temp_filled_pdf_path, output_pdf_path>>

\* the scratch paths request r has assigned so far
LocalPaths(r) ==
    {temp_signature_path[r], temp_filled_pdf_path[r], output_pdf_path[r]}
        \ {NoPath}

\* line 218: the field map, when the request carries one
FormFieldsOf(json) ==
    IF /\ json.t = "list" /\ json.items # <<>>
       /\ json.items[1].t = "dict"
       /\ "body" \in DOMAIN json.items[1].d
       /\ json.items[1].d["body"].t = "dict"
    THEN json.items[1].d["body"].m
    ELSE <<>>

Init ==
    /\ clock = 0
    /\ fs = <<>>
    /\ sig_page = SIGNATURE_PAGE
    /\ template_pages = TemplatePages
    /\ pc = [r \in Reqs |-> "idle"]
    /\ req = [r \in Reqs |-> NoRequest]
    /\ status = [r \in Reqs |-> 0]
    /\ pdf_bytes = [r \in Reqs |-> NoBytes]
    /\ form_fields = [r \in Reqs |-> <<>>]
    /\ signature_hash = [r \in Reqs |-> NoneVal]
    /\ signature_date = [r \in Reqs |-> NoneVal]
    /\ temp_signature_path = [r \in Reqs |-> NoPath]
    /\ temp_filled_pdf_path = [r \in Reqs |-> NoPath]
    /\ output_pdf_path = [r \in Reqs |-> NoPath]
    /\ pdf_form_data = [r \in Reqs |-> <<>>]

(***************************************************************************)
(* fill_pdf_form, one action per block of the function                     *)
(***************************************************************************)
Return(r, code) ==
    /\ status' = [status EXCEPT ![r] = code]
    /\ pc' = [pc EXCEPT ![r] = "done"]

Goto(r, label) ==
    /\ pc' = [pc EXCEPT ![r] = label]
    /\ UNCHANGED status

\* the clock advances between any two steps
Tick ==
    /\ clock < MaxClock
    /\ clock' = clock + 1
    /\ UNCHANGED <<fs, config, pc, req, status, pdf_bytes, locals, paths,
                   pdf_form_data>>

\* lines 202-225 (and 365-371 when an exception escapes)
ReceiveFrom(r, requests) ==
    /\ pc[r] = "idle"
    /\ \E request \in requests :
        LET code == Validate(request.method, request.json)
            fields == FormFieldsOf(request.json)
            extracted == request.method = "POST" /\ fields # <<>>
        IN  /\ req' = [req EXCEPT ![r] =
                        [method |-> request.method, json |-> request.json,
                         at |-> clock]]
            /\ form_fields' = [form_fields EXCEPT ![r] =
                                IF extracted THEN fields ELSE <<>>]
            /\ signature_hash' = [signature_hash EXCEPT ![r] =
                    IF extracted
                    THEN Get(fields, "signatureDataHash", StrVal(<<"N","/","A">>))
                    ELSE NoneVal]
            /\ signature_date' = [signature_date EXCEPT ![r] =
                    IF extracted
                    THEN Get(fields, "signatureDate", StrVal(StrfDate(clock)))
                    ELSE NoneVal]
            /\ fs' = IF code = 500 THEN RemoveFiles(fs, LocalPaths(r)) ELSE fs
            /\ IF code = 0 THEN Goto(r, "paths") ELSE Return(r, code)
    /\ UNCHANGED <<clock, config, pdf_bytes, paths, pdf_form_data>>

\* lines 227-230: the two stamps are two readings of the clock
MakePaths(r) ==
    /\ pc[r] = "paths"
    /\ \E later \in {clock, clock + 1} :
        /\ later <= MaxClock
        /\ temp_signature_path' = [temp_signature_path EXCEPT ![r] = SignaturePath]
        /\ temp_filled_pdf_path' =
                [temp_filled_pdf_path EXCEPT ![r] = TempFilledPath(clock)]
        /\ output_pdf_path' = [output_pdf_path EXCEPT ![r] = OutputPath(later)]
        /\ clock' = later
    /\ Goto(r, "template")
    /\ UNCHANGED <<fs, config, req, pdf_bytes, locals, pdf_form_data>>

\* lines 232-243
CheckTemplate(r) ==
    /\ pc[r] = "template"
    /\ \E outcome \in {"fillable", "missing", "no_fields", "unreadable"} :
        IF outcome = "fillable" THEN Goto(r, "save_sig") ELSE Return(r, 500)
    /\ UNCHANGED <<clock, fs, config, req, pdf_bytes, locals, paths,
                   pdf_form_data>>

\* lines 245-252
SaveSignature(r) ==
    /\ pc[r] = "save_sig"
    /\ LET payload == SplitComma1(form_fields[r]["signatureImageBase64"].s)
           written == WriteFile(fs, temp_signature_path[r],
                                SignatureFile(r, IsPng(payload)))
       IN  IF ~B64Valid(payload)
           THEN fs' = fs /\ Return(r, 500)
           ELSE \/ fs' = written /\ Goto(r, "map_text")
                \/ fs' \in {fs, written} /\ Return(r, 500)  \* open or write fails
    /\ UNCHANGED <<clock, config, req, pdf_bytes, locals, paths, pdf_form_data>>

\* lines 254-280
MapTextFields(r) ==
    /\ pc[r] = "map_text"
    /\ pdf_form_data' = [pdf_form_data EXCEPT ![r] = TextPass(form_fields[r])]
    /\ Goto(r, "map_checkbox")
    /\ UNCHANGED <<clock, fs, config, req, pdf_bytes, locals, paths>>

\* lines 282-298
MapCheckboxes(r) ==
    /\ pc[r] = "map_checkbox"
    /\ pdf_form_data' = [pdf_form_data EXCEPT ![r] =
                            CheckboxPass(pdf_form_data[r], form_fields[r])]
    /\ Goto(r, "map_date")
    /\ UNCHANGED <<clock, fs, config, req, pdf_bytes, locals, paths>>

\* lines 300-302
MapSignatureDate(r) ==
    /\ pc[r] = "map_date"
    /\ pdf_form_data' = [pdf_form_data EXCEPT ![r] =
                            DatePass(pdf_form_data[r], signature_date[r])]
    /\ Goto(r, "fill")
    /\ UNCHANGED <<clock, fs, config, req, pdf_bytes, locals, paths>>

\* lines 305-312, 341-342
FillForm(r) ==
    /\ pc[r] = "fill"
    /\ LET written == WriteFile(fs, temp_filled_pdf_path[r],
                                DocumentFile(r, template_pages, r, 0))
       IN  \/ fs' = written /\ Goto(r, "annotate")
           \/ fs' \in {fs, written} /\ Return(r, 500)
    /\ UNCHANGED <<clock, config, req, pdf_bytes, locals, paths, pdf_form_data>>

\* lines 314-330, 341-342
Annotate(r) ==
    /\ pc[r] = "annotate"
    /\ IF Truthy(signature_date[r]) \/ Truthy(signature_hash[r])
       THEN /\ pdf_form_data' = [pdf_form_data EXCEPT ![r] =
                    [p \in DOMAIN pdf_form_data[r] \cup {"Text_41"} |->
                        IF p = "Text_41"
                        THEN StrVal(AnnotationText(signature_date[r],
                                                   signature_hash[r]))
                        ELSE pdf_form_data[r][p]]]
            /\ \/ /\ temp_filled_pdf_path[r] \in DOMAIN fs
                  /\ fs' = WriteFile(fs, temp_filled_pdf_path[r],
                            [fs[temp_filled_pdf_path[r]] EXCEPT !.writer = r])
                  /\ Goto(r, "sign")
               \/ fs' = fs /\ Return(r, 500)
       ELSE /\ UNCHANGED <<pdf_form_data, fs>>
            /\ Goto(r, "sign")
    /\ UNCHANGED <<clock, config, req, pdf_bytes, locals, paths>>

\* lines 332-339, 341-342: add_signature_to_pdf (lines 126-191)
AddSignature(r) ==
    /\ pc[r] = "sign"
    /\ \/ /\ temp_filled_pdf_path[r] \in DOMAIN fs
          /\ temp_signature_path[r] \in DOMAIN fs
          /\ fs[temp_signature_path[r]].image
          /\ fs' = WriteFile(fs, output_pdf_path[r],
                    DocumentFile(r,
                        MergePages(fs[temp_filled_pdf_path[r]].pages, sig_page),
                        fs[temp_filled_pdf_path[r]].doc_of,
                        fs[temp_signature_path[r]].sig_of))
          /\ Goto(r, "final")
       \/ fs' = fs /\ Return(r, 500)
    /\ UNCHANGED <<clock, config, req, pdf_bytes, locals, paths, pdf_form_data>>

\* lines 344-363
ReturnFinal(r) ==
    /\ pc[r] = "final"
    /\ \/ /\ output_pdf_path[r] \in DOMAIN fs
          /\ pdf_bytes' = [pdf_bytes EXCEPT ![r] = fs[output_pdf_path[r]]]
          /\ Return(r, 200)
       \/ /\ UNCHANGED pdf_bytes
          /\ Return(r, 500)
    /\ fs' = RemoveFiles(fs, LocalPaths(r))
    /\ UNCHANGED <<clock, config, req, locals, paths, pdf_form_data>>

Receive(r) == ReceiveFrom(r, Requests)

Next ==
    \/ Tick
    \/ \E r \in Reqs : Receive(r)
    \/ \E r \in Reqs : MakePaths(r)
    \/ \E r \in Reqs : CheckTemplate(r)
    \/ \E r \in Reqs : SaveSignature(r)
    \/ \E r \in Reqs : MapTextFields(r)
    \/ \E r \in Reqs : MapCheckboxes(r)
    \/ \E r \in Reqs : MapSignatureDate(r)
    \/ \E r \in Reqs : FillForm(r)
    \/ \E r \in Reqs : Annotate(r)
    \/ \E r \in Reqs : AddSignature(r)
    \/ \E r \in Reqs : ReturnFinal(r)

Spec == Init /\ [][Next]_vars

(***************************************************************************)
(* One request with the inputs of the field mapper, up to the point where  *)
(* the rendered map is handed to write_fillable_pdf.                       *)
(***************************************************************************)
ReceiveForm == ReceiveFrom(1, MapperRequests)

NextMapper ==
    \/ Tick
    \/ ReceiveForm
    \/ MakePaths(1)
    \/ CheckTemplate(1)
    \/ SaveSignature(1)
    \/ MapTextFields(1)
    \/ MapCheckboxes(1)
    \/ MapSignatureDate(1)

SpecMapper == Init /\ [][NextMapper]_vars

(***************************************************************************)
(* One request over documents of every length and every target page index. *)
(***************************************************************************)
InitMerge ==
    /\ clock = 0
    /\ fs = <<>>
    /\ sig_page \in -1..(MaxPages + 1)
    /\ template_pages \in {Document(n) : n \in 0..MaxPages}
    /\ pc = [r \in Reqs |-> "idle"]
    /\ req = [r \in Reqs |-> NoRequest]
    /\ status = [r \in Reqs |-> 0]
    /\ pdf_bytes = [r \in Reqs |-> NoBytes]
    /\ form_fields = [r \in Reqs |-> <<>>]
    /\ signature_hash = [r \in Reqs |-> NoneVal]
    /\ signature_date = [r \in Reqs |-> NoneVal]
    /\ temp_signature_path = [r \in Reqs |-> NoPath]
    /\ temp_filled_pdf_path = [r \in Reqs |-> NoPath]
    /\ output_pdf_path = [r \in Reqs |-> NoPath]
    /\ pdf_form_data = [r \in Reqs |-> <<>>]

ReceiveDocument == ReceiveFrom(1, MergeRequests)

NextMerge ==
    \/ ReceiveDocument
    \/ MakePaths(1)
    \/ CheckTemplate(1)
    \/ SaveSignature(1)
    \/ MapTextFields(1)
    \/ MapCheckboxes(1)
    \/ MapSignatureDate(1)
    \/ FillForm(1)
    \/ Annotate(1)
    \/ AddSignature(1)
    \/ ReturnFinal(1)

SpecMerge == InitMerge /\ [][NextMerge]_vars

TypeOK ==
    /\ clock \in 0..MaxClock
    /\ \A r \in Reqs : status[r] \in {0, 200, 400, 405, 500}

(***************************************************************************)
(* Properties                                                              *)
(***************************************************************************)
\* the response of request r has been returned
Responded(r) == status[r] # 0

\* the Field Mapper has finished and hands pdf_form_data to the Form Filler
Rendered(r) == pc[r] = "fill"

\* the field map the request carried
InputForm(r) == FormFieldsOf(req[r].json)

\* logical names with a scalar target that are not checkbox fields
MappedTextNames ==
    {k \in DOMAIN FIELD_MAPPING : k \notin CHECKBOX_FIELDS /\ Len(FIELD_MAPPING[k]) = 1}

\* every template field name FIELD_MAPPING assigns
TemplateTargets ==
    UNION {{FIELD_MAPPING[k][i] : i \in 1..Len(FIELD_MAPPING[k])} :
            k \in DOMAIN FIELD_MAPPING}

\* C1: when a response has been returned, on every exit path, no scratch
\* file written by that request still exists.
C1_CleanupOnEveryExit ==
    \A r \in Reqs :
        Responded(r) => \A p \in DOMAIN fs : fs[p].writer # r

\* the scratch files a running request has written and not yet deleted
WrittenPaths(r) ==
    (IF pc[r] \in {"map_text", "map_checkbox", "map_date", "fill",
                   "annotate", "sign", "final"}
     THEN {temp_signature_path[r]} ELSE {}) \cup
    (IF pc[r] \in {"annotate", "sign", "final"}
     THEN {temp_filled_pdf_path[r]} ELSE {}) \cup
    (IF pc[r] = "final" THEN {output_pdf_path[r]} ELSE {})

\* C2: no other request writes or deletes a scratch path a running request
\* has written (the file is still there and is the request's own), and a
\* returned document is composed from the request's own intermediate
\* document and its own signature image.
C2_ScratchRequestUnique ==
    /\ \A r \in Reqs :
        \A p \in WrittenPaths(r) : p \in DOMAIN fs /\ fs[p].writer = r
    /\ \A r \in Reqs :
        status[r] = 200 => pdf_bytes[r].doc_of = r /\ pdf_bytes[r].sig_of = r

\* the body is not a sequence, is empty, or its first element is not an
\* object with the key 'body'
BadShape(json) ==
    \/ json.t # "list"
    \/ json.items = <<>>
    \/ json.items[1].t # "dict"
    \/ "body" \notin DOMAIN json.items[1].d

\* C3: a POST request whose body is not a sequence, is empty, or whose first
\* element lacks the key 'body' (or is no object at all) is answered 400.
C3_BadShapeIs400 ==
    \A r \in Reqs :
        (Responded(r) /\ req[r].method = "POST" /\ BadShape(req[r].json))
            => status[r] = 400

\* the body is a sequence whose first element is an object with a field map
\* under 'body'
WellShaped(json) ==
    /\ ~BadShape(json)
    /\ json.items[1].d["body"].t = "dict"

\* the signature entry is absent or does not start with the prefix
BadSignature(form) ==
    \/ "signatureImageBase64" \notin DOMAIN form
    \/ form["signatureImageBase64"].t # "str"
    \/ ~StartsWith(form["signatureImageBase64"].s, SIGNATURE_PREFIX)

\* C4: a well-shaped POST request whose signature entry is absent or, for a
\* value of any type, does not start with the prefix is answered 400, and
\* no later stage has run (no scratch path has been chosen).
C4_BadSignatureIs400 ==
    \A r \in Reqs :
        (/\ req[r].method = "POST"
         /\ WellShaped(req[r].json)
         /\ BadSignature(InputForm(r)))
            => /\ status[r] = 400
               /\ pc[r] = "done"
               /\ LocalPaths(r) = {}

\* C5: the document add_signature_to_pdf writes has the page count of its
\* input, output page i is input page i, and the overlay is merged onto
\* exactly the page at the target index (onto none when it is out of range).
C5_PagesKeepOrder ==
    \A r \in Reqs :
        (/\ pc[r] = "final"
         /\ temp_filled_pdf_path[r] \in DOMAIN fs
         /\ output_pdf_path[r] \in DOMAIN fs)
            => LET source == fs[temp_filled_pdf_path[r]].pages
                   out == fs[output_pdf_path[r]].pages
               IN  /\ Len(out) = Len(source)
                   /\ \A i \in 1..Len(out) :
                        /\ out[i].src = source[i].src
                        /\ out[i].merged = (i - 1 = sig_page)

UpperOf(c) ==
    IF \E i \in 1..Len(LowerChars) : LowerChars[i] = c
    THEN UpperChars[CHOOSE i \in 1..Len(LowerChars) : LowerChars[i] = c]
    ELSE c

\* chars is word up to the case of its letters
IsCaseVariant(chars, word) ==
    /\ Len(chars) = Len(word)
    /\ \A i \in 1..Len(word) : chars[i] \in {word[i], UpperOf(word[i])}

TruthWords ==
    { <<"y","e","s">>, <<"t","r","u","e">>, <<"1">>, <<"o","n">>,
      <<"o","w","n">> }

\* the checkbox value counts as true
MeansTrue(value) ==
    IF value.t = "bool"
    THEN value.b
    ELSE \E word \in TruthWords : IsCaseVariant(PyStr(value), word)

\* C6: for every checkbox field present in the input the rendered map holds
\* "Yes" in the yes-target and "Off" in the no-target when the value is true,
\* and the inverse when it is false.
C6_CheckboxPair ==
    \A r \in Reqs :
        Rendered(r) =>
            \A c \in CHECKBOX_FIELDS \cap DOMAIN InputForm(r) :
                LET yes_field == FIELD_MAPPING[c][1]
                    no_field == FIELD_MAPPING[c][2]
                    data == pdf_form_data[r]
                    true == MeansTrue(InputForm(r)[c])
                IN  /\ {yes_field, no_field} \subseteq DOMAIN data
                    /\ data[yes_field] = (IF true THEN YesVal ELSE OffVal)
                    /\ data[no_field] = (IF true THEN OffVal ELSE YesVal)

\* a checkbox given as a true word in upper or mixed case has been rendered
C6_Witness ==
    \E r \in Reqs :
        /\ Rendered(r)
        /\ \E c \in CHECKBOX_FIELDS \cap DOMAIN InputForm(r) :
            /\ InputForm(r)[c].t = "str"
            /\ MeansTrue(InputForm(r)[c])
            /\ InputForm(r)[c].s # PyLower(InputForm(r)[c].s)
            /\ pdf_form_data[r][FIELD_MAPPING[c][1]] = YesVal

Cap(field_name) ==
    IF field_name = "businessEmail" THEN 30
    ELSE IF field_name = "businessType" THEN 35
    ELSE 40

\* out is the text made of the first min(len(chars), cap) characters of chars
IsCut(out, chars, cap) ==
    /\ out.t = "str"
    /\ Len(out.s) = (IF Len(chars) < cap THEN Len(chars) ELSE cap)
    /\ \A i \in 1..Len(out.s) : out.s[i] = chars[i]

\* the mapped text fields of the input that hold a string
StringFields(r) ==
    {k \in MappedTextNames \cap DOMAIN InputForm(r) : InputForm(r)[k].t = "str"}

\* C7 as claimed: every mapped non-checkbox text field holding a string is
\* rendered as its prefix of length min(len, cap), cap being 30 for
\* businessEmail, 35 for businessType and 40 otherwise.
C7_EveryTextFieldCut ==
    \A r \in Reqs :
        Rendered(r) =>
            \A k \in StringFields(r) :
                /\ PdfFieldName(k) \in DOMAIN pdf_form_data[r]
                /\ IsCut(pdf_form_data[r][PdfFieldName(k)], InputForm(r)[k].s, Cap(k))

\* C7 as amended: every mapped non-checkbox text field other than
\* signatureDate holding a string is rendered as its prefix of length
\* min(len, cap); signatureDate is rendered as the input value, uncut.
C7_TextFieldCutExceptDate ==
    \A r \in Reqs :
        Rendered(r) =>
            \A k \in StringFields(r) :
                /\ PdfFieldName(k) \in DOMAIN pdf_form_data[r]
                /\ IF k = "signatureDate"
                   THEN pdf_form_data[r][PdfFieldName(k)] = InputForm(r)[k]
                   ELSE IsCut(pdf_form_data[r][PdfFieldName(k)],
                              InputForm(r)[k].s, Cap(k))

\* a string longer than its cap has been rendered for a field other than
\* signatureDate
C7_Witness ==
    \E r \in Reqs :
        /\ Rendered(r)
        /\ \E k \in StringFields(r) \ {"signatureDate"} :
            /\ Len(InputForm(r)[k].s) > Cap(k)
            /\ Len(pdf_form_data[r][PdfFieldName(k)].s) = Cap(k)

\* C8: a mapped non-checkbox field whose input value is a number or a
\* boolean is rendered unchanged, with its type.
C8_NonStringsUnchanged ==
    \A r \in Reqs :
        Rendered(r) =>
            \A k \in MappedTextNames \cap DOMAIN InputForm(r) :
                InputForm(r)[k].t \in {"num", "bool"} =>
                    /\ PdfFieldName(k) \in DOMAIN pdf_form_data[r]
                    /\ pdf_form_data[r][PdfFieldName(k)] = InputForm(r)[k]

\* C9: the Field Mapper returns no error, every key of the rendered map is a
\* template field name FIELD_MAPPING assigns, and no unmapped logical name
\* of the input is a key of the rendered map.
C9_UnmappedDropped ==
    \A r \in Reqs :
        /\ pc[r] \in {"map_text", "map_checkbox", "map_date", "fill"}
            => status[r] = 0
        /\ Rendered(r) =>
            /\ DOMAIN pdf_form_data[r] \subseteq TemplateTargets
            /\ \A k \in DOMAIN InputForm(r) :
                k \notin DOMAIN FIELD_MAPPING => k \notin DOMAIN pdf_form_data[r]

\* a field map with an unmapped logical name has been rendered
C9_Witness ==
    \E r \in Reqs :
        /\ Rendered(r)
        /\ status[r] = 0
        /\ \E k \in DOMAIN InputForm(r) :
            k \notin DOMAIN FIELD_MAPPING /\ k \notin SIGNATURE_KEYS
        /\ pdf_form_data[r] # <<>>

\* the signature date of the request: the input's when supplied, the date
\* at request time otherwise
ResolvedDate(r) ==
    IF "signatureDate" \in DOMAIN InputForm(r)
    THEN InputForm(r)["signatureDate"]
    ELSE StrVal(StrfDate(req[r].at))

\* C10: the signature-date template field of the rendered map is the
\* resolved signature date, whether or not the input supplied it, and not
\* the value the text pass wrote for signatureDate.
C10_SignatureDateResolved ==
    \A r \in Reqs :
        Rendered(r) =>
            /\ "Text_39" \in DOMAIN pdf_form_data[r]
            /\ pdf_form_data[r]["Text_39"] = ResolvedDate(r)

\* a signatureDate the text pass cuts has been rendered uncut
C10_Witness ==
    \E r \in Reqs :
        /\ Rendered(r)
        /\ "signatureDate" \in DOMAIN InputForm(r)
        /\ InputForm(r)["signatureDate"].t = "str"
        /\ Len(InputForm(r)["signatureDate"].s) > 40
        /\ Len(pdf_form_data[r]["Text_39"].s) > 40

====
